---- MODULE Spec2Model ----
(***************************************************************************)
(* Voice-controlled lab automation (src/voice_controller.py).              *)
(*                                                                         *)
(* The module models                                                       *)
(*   - the command matcher  VoiceController._match_command  as an operator *)
(*     on strings (lowercasing, substring search in table order, the two   *)
(*     fallback regular expressions),                                      *)
(*   - the dispatcher  VoiceController.send_command  with the retry policy *)
(*     that build_session mounts on the session, one HTTP attempt a step,  *)
(*   - the control loop  VoiceController.run,  the asynchronous  stop()    *)
(*     of the SIGINT handler, and main's exit status.                      *)
(*                                                                         *)
(* Text is a TLA+ string; TLC evaluates Len, SubSeq and \o on strings.     *)
(***************************************************************************)
EXTENDS Integers, Sequences, FiniteSets, TLC

VARIABLES
    pc,             \* position of the main thread
    running,        \* VoiceController.running
    text,           \* run(): local text   (SpecMatch: the argument of _match_command)
    endpoint,       \* run(): local endpoint
    pending,        \* run(): members of the for loop not yet iterated
    path,           \* send_command(): parameter path
    total,          \* urllib3 Retry.total of the request in progress
    attempts,       \* number of HTTP requests issued by the session.get in progress
    last,           \* what the latest HTTP attempt of that session.get met
    got,            \* what session.get produced: a response or an exception
    result,         \* return value of the send_command that is returning
    cycle_sent,     \* history: paths passed to send_command in this loop iteration
    cycle_results,  \* history: values send_command returned in this loop iteration
    stop_called,    \* history: stop() has been invoked
    exit_status,    \* main's return value
    hist            \* history: what the run has done so far (see NoHistory)

vars == << pc, running, text, endpoint, pending, path, total, attempts, last, got,
           result, cycle_sent, cycle_results, stop_called, exit_status, hist >>

(***************************************************************************)
(* Bounds of the model.                                                    *)
(***************************************************************************)
\* longest utterance, in words, that SpecMatch draws from Vocabulary
MaxWords == 3
\* longest utterance, in words, that the recogniser returns in Spec
MaxHeardWords == 1
\* the history counts the calibrations and the listens up to MaxCalls and the
\* calls of send_command up to MaxSends; a counter that is full stays
MaxCalls == 2
MaxSends == 5

\* Python's None (Optional[str]); no lowercased text and no endpoint equals it
None == "<None>"

\* no HTTP attempt made yet, and no session.get result yet (the locals of
\* send_command outside a call)
NoOutcome == [ kind |-> "none", status |-> 0, retry_after |-> FALSE ]
NoResult == [ kind |-> "none", exc |-> None, status |-> 0 ]

\* the history of a run that has not started:
\*   calibrations       calls of adjust_ambient made
\*   calibrated         adjust_ambient returned without an exception
\*   checked            the while condition of run() has been evaluated
\*   early_stop         stop() was invoked before that first evaluation
\*   listens_since_stop calls of listen_once begun after the first stop()
\*   sends_since_stop   calls of send_command begun after the first stop()
\*   set_again          stop() assigned False to a flag that was False already
\* one more in a counter of the history
Counted(n, max) == IF n < max THEN n + 1 ELSE n

NoHistory ==
    [ calibrations |-> 0, calibrated |-> FALSE, checked |-> FALSE,
      early_stop |-> FALSE, listens_since_stop |-> 0, sends_since_stop |-> 0,
      set_again |-> FALSE ]

(***************************************************************************)
(* Strings.                                                                *)
(***************************************************************************)
\* Python: p in t  (contiguous substring)
Contains(t, p) ==
    \E i \in 1..(Len(t) - Len(p) + 1) : SubSeq(t, i, i + Len(p) - 1) = p

\* t[i:].startswith(p), i a 0-based offset
StartsAt(t, i, p) ==
    /\ i + Len(p) <= Len(t)
    /\ SubSeq(t, i + 1, i + Len(p)) = p

LowerChar(c) ==
    CASE c = "A" -> "a" [] c = "B" -> "b" [] c = "C" -> "c" [] c = "D" -> "d"
      [] c = "E" -> "e" [] c = "F" -> "f" [] c = "G" -> "g" [] c = "H" -> "h"
      [] c = "I" -> "i" [] c = "J" -> "j" [] c = "K" -> "k" [] c = "L" -> "l"
      [] c = "M" -> "m" [] c = "N" -> "n" [] c = "O" -> "o" [] c = "P" -> "p"
      [] c = "Q" -> "q" [] c = "R" -> "r" [] c = "S" -> "s" [] c = "T" -> "t"
      [] c = "U" -> "u" [] c = "V" -> "v" [] c = "W" -> "w" [] c = "X" -> "x"
      [] c = "Y" -> "y" [] c = "Z" -> "z" [] OTHER -> c

\* str.lower()
RECURSIVE Lower(_)
Lower(t) ==
    IF t = "" THEN ""
    ELSE LowerChar(SubSeq(t, 1, 1)) \o Lower(SubSeq(t, 2, Len(t)))

\* the characters the regular expression class \w matches, among lowercased text
WordChars ==
    { "a", "b", "c", "d", "e", "f", "g", "h", "i", "j", "k", "l", "m",
      "n", "o", "p", "q", "r", "s", "t", "u", "v", "w", "x", "y", "z",
      "0", "1", "2", "3", "4", "5", "6", "7", "8", "9", "_" }

\* \b at offset i: exactly one of the characters before and after i is a word character
WordBoundaryAt(t, i) ==
    LET before == i >= 1 /\ SubSeq(t, i, i) \in WordChars
        after  == i < Len(t) /\ SubSeq(t, i + 1, i + 1) \in WordChars
    IN  before # after

\* .* matches t[i:j]: any characters but a newline
DotStar(t, i, j) == ~ Contains(SubSeq(t, i + 1, j), "\n")

\* re.search(r"\b(turn|switch) .* all .* <state>\b", t)
RegexAll(t, state) ==
    \E verb \in {"turn", "switch"} :
      \E i \in 0..Len(t) :
        /\ WordBoundaryAt(t, i)
        /\ StartsAt(t, i, verb \o " ")
        /\ \E j \in (i + Len(verb) + 1)..Len(t) :
             /\ StartsAt(t, j, " all ")
             /\ DotStar(t, i + Len(verb) + 1, j)
             /\ \E k \in (j + 5)..Len(t) :
                  /\ StartsAt(t, k, " " \o state)
                  /\ DotStar(t, j + 5, k)
                  /\ WordBoundaryAt(t, k + 1 + Len(state))

(***************************************************************************)
(* The command table and the matcher.                                      *)
(***************************************************************************)
\* mutant: the led/on entry also holds the bare phrase "led"
command_map_bare_led ==
    << [phrases  |-> <<"turn everything on", "turn all on", "all on">>,
        endpoint |-> "all/on"],
       [phrases  |-> <<"turn everything off", "turn all off", "all off">>,
        endpoint |-> "all/off"],
       [phrases  |-> <<"led on", "turn on led", "turn led on", "led">>,
        endpoint |-> "led/on"],
       [phrases  |-> <<"led off", "turn off led", "turn led off">>,
        endpoint |-> "led/off"],
       [phrases  |-> <<"light on", "turn on light", "turn light on">>,
        endpoint |-> "light/on"],
       [phrases  |-> <<"light off", "turn off light", "turn light off">>,
        endpoint |-> "light/off"],
       [phrases  |-> <<"fan on", "turn on fan">>,
        endpoint |-> "fan/on"],
       [phrases  |-> <<"fan off", "turn off fan">>,
        endpoint |-> "fan/off"] >>

\* self.command_map, in declaration order (dict order is insertion order)
command_map ==
    << [phrases  |-> <<"turn everything on", "turn all on", "all on">>,
        endpoint |-> "all/on"],
       [phrases  |-> <<"turn everything off", "turn all off", "all off">>,
        endpoint |-> "all/off"],
       [phrases  |-> <<"led on", "turn on led", "turn led on">>,
        endpoint |-> "led/on"],
       [phrases  |-> <<"led off", "turn off led", "turn led off">>,
        endpoint |-> "led/off"],
       [phrases  |-> <<"light on", "turn on light", "turn light on">>,
        endpoint |-> "light/on"],
       [phrases  |-> <<"light off", "turn off light", "turn light off">>,
        endpoint |-> "light/off"],
       [phrases  |-> <<"fan on", "turn on fan">>,
        endpoint |-> "fan/on"],
       [phrases  |-> <<"fan off", "turn off fan">>,
        endpoint |-> "fan/off"] >>

\* some phrase of table entry i occurs in t
EntryOccurs(t, i) ==
    \E n \in 1..Len(command_map[i].phrases) : Contains(t, command_map[i].phrases[n])

\* mutant: the table walked from its last entry to entry i, the last match wins
RECURSIVE TableMatch_last(_, _)
TableMatch_last(t, i) ==
    IF i > Len(command_map) THEN None
    ELSE LET later == TableMatch_last(t, i + 1)
         IN  IF later # None THEN later
             ELSE IF EntryOccurs(t, i) THEN command_map[i].endpoint
             ELSE None

\* the for loops of lines 93-96 from entry i on: the first entry with a phrase in t
RECURSIVE TableMatch(_, _)
TableMatch(t, i) ==
    IF i > Len(command_map) THEN None
    ELSE IF EntryOccurs(t, i) THEN command_map[i].endpoint
    ELSE TableMatch(t, i + 1)

\* mutant: the second pattern as an else branch, so that nothing returns None
RegexFallback_else(t) ==
    IF RegexAll(t, "on") THEN "all/on" ELSE "all/off"

\* lines 98-104: the fallback patterns, "on" before "off"
RegexFallback(t) ==
    IF RegexAll(t, "on") THEN "all/on"
    ELSE IF RegexAll(t, "off") THEN "all/off"
    ELSE None

\* mutant: the text is not lowercased
_match_command_raw(raw) ==
    LET e == TableMatch(raw, 1)
    IN  IF e # None THEN e ELSE RegexFallback(raw)

\* mutant: the fallback patterns are tried before the table
_match_command_regex_first(raw) ==
    LET t == Lower(raw)
        e == RegexFallback(t)
    IN  IF e # None THEN e ELSE TableMatch(t, 1)

_match_command(raw) ==
    LET t == Lower(raw)
        e == TableMatch(t, 1)
    IN  IF e # None THEN e ELSE RegexFallback(t)

(***************************************************************************)
(* Utterances: the inputs of the matcher.                                  *)
(***************************************************************************)
\* words of the command table, filler words, and words that hold a table word
\* inside them ("sled only" holds "led on", "wall on" holds "all on")
Vocabulary ==
    { "turn", "switch", "all", "everything", "on", "off", "led", "light", "fan",
      "projector", "the", "please", "LED", "sled", "only", "wall" }

\* the utterances of up to n words of Vocabulary, single spaces between the words
RECURSIVE WordSeqs(_)
WordSeqs(n) ==
    IF n = 0 THEN {""}
    ELSE LET shorter == WordSeqs(n - 1)
         IN  shorter \cup Vocabulary
                     \cup { u \o " " \o w : u \in shorter \ {""}, w \in Vocabulary }

\* every phrase of the table
AllPhrases ==
    UNION { { command_map[i].phrases[n] : n \in 1..Len(command_map[i].phrases) } :
            i \in 1..Len(command_map) }

Devices == { "led", "light", "fan", "projector" }
States == { "on", "off" }

\* the utterances of tests/test_command_matching.py and of the examples
LiteralUtterances ==
    { "LED on", "turn led off", "please turn the light on", "projector off now",
      "fan on please", "turn everything on", "can you turn everything off",
      "play music", "",
      "fan off then led on", "turn the fan off and all the rest on",
      "switch it all the way on", "switch them all right off",
      "return it all the way on", "turn it all the way only" }

\* a table phrase with filler text around it
FramedUtterances ==
    { pre \o p \o post : pre \in {"", "please ", "can you ", "Hey "},
                         p \in AllPhrases,
                         post \in {"", " now", " please", " Thanks"} }

\* two table phrases, in both orders
PairUtterances == { p \o " then " \o q : p \in AllPhrases, q \in AllPhrases }

\* "<device> <state>" followed by filler words
DeviceStateUtterances ==
    { d \o " " \o s \o post : d \in Devices, s \in States,
                              post \in {"", " now", " please", " right now"} }

\* verb, filler, "all", filler, state: the shape of the fallback patterns; the
\* fillers hold no, one or two words, and some hold a table phrase
FillersBeforeAll == {"", " it", " them", " the fan off and", " on the led"}
FillersAfterAll ==
    {"", " the", " the way", " the rest", " the lights", " of the light off and"}

FallbackUtterances ==
    { verb \o f1 \o " all" \o f2 \o " " \o s :
        verb \in {"turn", "switch", "Switch", "return"},
        f1 \in FillersBeforeAll,
        f2 \in FillersAfterAll,
        s \in States }

Utterances ==
    WordSeqs(MaxWords) \cup LiteralUtterances \cup FramedUtterances
        \cup PairUtterances \cup DeviceStateUtterances \cup FallbackUtterances

(***************************************************************************)
(* SpecMatch: _match_command applied to one utterance.                     *)
(***************************************************************************)
InitMatch ==
    /\ pc = "m_input"
    /\ running = TRUE
    /\ text \in Utterances
    /\ endpoint = None
    /\ pending = << >>
    /\ path = None
    /\ total = 0
    /\ attempts = 0
    /\ last = NoOutcome
    /\ got = NoResult
    /\ result = FALSE
    /\ cycle_sent = << >>
    /\ cycle_results = << >>
    /\ stop_called = FALSE
    /\ exit_status = -1
    /\ hist = NoHistory

\* endpoint = vc._match_command(text)
ApplyMatch ==
    /\ pc = "m_input"
    /\ endpoint' = _match_command(text)
    /\ pc' = "m_done"
    /\ UNCHANGED << running, text, pending, path, total, attempts, last, got, result,
                    cycle_sent, cycle_results, stop_called, exit_status, hist >>

NextMatch == ApplyMatch

SpecMatch == InitMatch /\ [][NextMatch]_vars

(***************************************************************************)
(* The dispatcher: build_session's retry policy and send_command.          *)
(*                                                                         *)
(* session.get runs urllib3's urlopen under the Retry object that          *)
(* build_session mounts: Retry(total=retries, status_forcelist=...), every *)
(* other parameter at its default (GET is a retryable method, Retry-After  *)
(* is respected, raise_on_status is set).  A response here is the final    *)
(* response of a request; redirections are not modelled.                   *)
(***************************************************************************)
\* build_session(retries=3): Retry(total=retries)
retries == 3

\* Retry(status_forcelist=(500, 502, 503, 504))
status_forcelist == { 500, 502, 503, 504 }

\* urllib3 Retry.RETRY_AFTER_STATUS_CODES, used as respect_retry_after_header
\* keeps its default
RETRY_AFTER_STATUS_CODES == { 413, 429, 503 }

\* status codes the device may answer with
Statuses == { 200, 304, 404, 413, 429, 500, 501, 502, 503, 504 }

\* what one HTTP attempt meets: a response (status, Retry-After header present
\* or not) or a connection-level failure (refused, reset, timed out)
AttemptOutcomes ==
    [ kind : {"response"}, status : Statuses, retry_after : BOOLEAN ]
        \cup { [ kind |-> "failure", status |-> 0, retry_after |-> FALSE ] }

\* urllib3 Retry.is_retry for a GET, under the Retry of build_session
is_retry(status, has_retry_after, tot) ==
    \/ status \in status_forcelist
    \/ tot # 0 /\ has_retry_after /\ status \in RETRY_AFTER_STATUS_CODES

\* the attempt is one the Retry policy retries
Retryable(o, tot) ==
    \/ o.kind = "failure"
    \/ o.kind = "response" /\ is_retry(o.status, o.retry_after, tot)

\* Retry.increment raises MaxRetryError when the new total is below zero;
\* requests turns it into RetryError (a response) or ConnectionError (a failure)
Exhausted(tot) == tot - 1 < 0

ExhaustedError(o) ==
    IF o.kind = "response" THEN "RetryError" ELSE "ConnectionError"

\* mutant: only server errors raise
raise_for_status_server_only(status) ==
    IF 500 <= status /\ status < 600 THEN "HTTPError" ELSE None

\* Response.raise_for_status: HTTPError for 400 <= status < 600
raise_for_status(status) ==
    IF 400 <= status /\ status < 600 THEN "HTTPError" ELSE None

\* the subclasses of requests.RequestException that session.get and
\* raise_for_status raise
RequestException == { "HTTPError", "ConnectionError", "RetryError", "Timeout" }

\* mutant: except requests.HTTPError
Caught_http_only(exc) == exc = "HTTPError"

\* line 115: except requests.RequestException
Caught(exc) == exc \in RequestException

\* the exception that leaves the try block of send_command, or None
RaisedInTry(g) ==
    IF g.kind = "exception" THEN g.exc ELSE raise_for_status(g.status)

\* the composite expansions of run(), lines 167 and 172
AllOnMembers == << "led/on", "light/on", "projector/on", "fan/on" >>
AllOffMembers == << "led/off", "light/off", "projector/off", "fan/off" >>

\* mutant: a composite endpoint is sent as it is
Expansion_none(e) == << e >>

\* the paths run() passes to send_command for a matched endpoint, in order
Expansion(e) ==
    IF e = "all/on" THEN AllOnMembers
    ELSE IF e = "all/off" THEN AllOffMembers
    ELSE << e >>

IsComposite(e) == e \in { "all/on", "all/off" }

(***************************************************************************)
(* Spec: main, run and stop.                                               *)
(***************************************************************************)
\* what recognizer.listen and recognize_google produce
Heard == WordSeqs(MaxHeardWords) \cup LiteralUtterances

ListenOutcomes ==
    [ kind : {"text"}, text : Heard ]
        \cup { [ kind |-> k, text |-> "" ] :
               k \in { "UnknownValueError", "RequestError", "OtherError" } }

\* main() up to the call of controller.run: the controller is constructed and
\* the SIGINT handler installed
Init ==
    /\ pc = "calibrating"
    /\ running = TRUE
    /\ text = None
    /\ endpoint = None
    /\ pending = << >>
    /\ path = None
    /\ total = 0
    /\ attempts = 0
    /\ last = NoOutcome
    /\ got = NoResult
    /\ result = FALSE
    /\ cycle_sent = << >>
    /\ cycle_results = << >>
    /\ stop_called = FALSE
    /\ exit_status = -1
    /\ hist = NoHistory

\* mutant: an exception of the calibration is swallowed and the loop begins
adjust_ambient_swallow ==
    /\ pc = "calibrating"
    /\ \E ok \in BOOLEAN :
         /\ pc' = IF ok THEN "loop" ELSE "loop"
         /\ hist' = [ hist EXCEPT !.calibrations = Counted(@, MaxCalls),
                                  !.calibrated = ok ]
    /\ UNCHANGED << running, text, endpoint, pending, path, total, attempts, last, got,
                    result, cycle_sent, cycle_results, stop_called, exit_status >>

\* line 151: self.adjust_ambient(ambient_duration); an exception leaves run()
adjust_ambient ==
    /\ pc = "calibrating"
    /\ \E ok \in BOOLEAN :
         /\ pc' = IF ok THEN "loop" ELSE "raised"
         /\ hist' = [ hist EXCEPT !.calibrations = Counted(@, MaxCalls),
                                  !.calibrated = ok ]
    /\ UNCHANGED << running, text, endpoint, pending, path, total, attempts, last, got,
                    result, cycle_sent, cycle_results, stop_called, exit_status >>

\* mutant: a do-while loop, the first iteration begins without reading the flag
LoopCheck_do_while ==
    /\ pc = "loop"
    /\ IF running \/ ~ hist.checked
       THEN /\ pc' = "listening"
            /\ cycle_sent' = << >>
            /\ cycle_results' = << >>
       ELSE /\ pc' = "returned"
            /\ UNCHANGED << cycle_sent, cycle_results >>
    /\ hist' = [ hist EXCEPT !.checked = TRUE ]
    /\ UNCHANGED << running, text, endpoint, pending, path, total, attempts, last, got,
                    result, stop_called, exit_status >>

\* mutant: while True, the flag is not read
LoopCheck_while_true ==
    /\ pc = "loop"
    /\ IF TRUE
       THEN /\ pc' = "listening"
            /\ cycle_sent' = << >>
            /\ cycle_results' = << >>
       ELSE /\ pc' = "returned"
            /\ UNCHANGED << cycle_sent, cycle_results >>
    /\ hist' = [ hist EXCEPT !.checked = TRUE ]
    /\ UNCHANGED << running, text, endpoint, pending, path, total, attempts, last, got,
                    result, stop_called, exit_status >>

\* line 154: while self.running
LoopCheck ==
    /\ pc = "loop"
    /\ IF running
       THEN /\ pc' = "listening"
            /\ cycle_sent' = << >>
            /\ cycle_results' = << >>
       ELSE /\ pc' = "returned"
            /\ UNCHANGED << cycle_sent, cycle_results >>
    /\ hist' = [ hist EXCEPT !.checked = TRUE ]
    /\ UNCHANGED << running, text, endpoint, pending, path, total, attempts, last, got,
                    result, stop_called, exit_status >>

\* _match_command tabulated over the texts listen_once can return
HeardEndpoint == [ t \in { Lower(h) : h \in Heard } |-> _match_command(t) ]

\* listen_once(), lines 130-142: the value it returns, or "raise"
listen_once(o) ==
    IF o.kind = "text" THEN Lower(o.text)
    ELSE IF o.kind \in { "UnknownValueError", "RequestError" } THEN None
    ELSE "raise"

\* what a call of listen_once can give
ListenResults == { listen_once(o) : o \in ListenOutcomes }

\* line 156: not text
NoText(t) == t = None \/ t = ""

\* lines 155-158: text = self.listen_once(); if not text: ... continue
Listen ==
    /\ pc = "listening"
    /\ \E t \in ListenResults :
         IF t = "raise"
         THEN /\ pc' = "raised"
              /\ text' = text
         ELSE /\ text' = t
              /\ pc' = IF NoText(t) THEN "pause" ELSE "matching"
    /\ hist' = [ hist EXCEPT
                   !.listens_since_stop = IF stop_called THEN Counted(@, MaxCalls) ELSE @ ]
    /\ UNCHANGED << running, endpoint, pending, path, total, attempts, last, got,
                    result, cycle_sent, cycle_results, stop_called, exit_status >>

\* line 157: time.sleep(pause); continue
Pause ==
    /\ pc = "pause"
    /\ pc' = "loop"
    /\ UNCHANGED << running, text, endpoint, pending, path, total, attempts, last, got,
                    result, cycle_sent, cycle_results, stop_called, exit_status, hist >>

\* mutant: an utterance that matches nothing is followed by the sleep of line 157
Match_pause_on_no_match ==
    /\ pc = "matching"
    /\ endpoint' = HeardEndpoint[text]
    /\ IF endpoint' = None
       THEN /\ pc' = "pause"
            /\ pending' = << >>
       ELSE /\ pc' = "dispatch"
            /\ pending' = Expansion(endpoint')
    /\ UNCHANGED << running, text, path, total, attempts, last, got, result,
                    cycle_sent, cycle_results, stop_called, exit_status, hist >>

\* lines 160-176: endpoint = self._match_command(text); no endpoint: continue;
\* otherwise the members to send
Match ==
    /\ pc = "matching"
    /\ endpoint' = HeardEndpoint[text]
    /\ IF endpoint' = None
       THEN /\ pc' = "loop"
            /\ pending' = << >>
       ELSE /\ pc' = "dispatch"
            /\ pending' = Expansion(endpoint')
    /\ UNCHANGED << running, text, path, total, attempts, last, got, result,
                    cycle_sent, cycle_results, stop_called, exit_status, hist >>

\* the next iteration of the for loop (or the single call of line 176):
\* self.send_command(e) is entered; the loop is left when no member remains
Dispatch ==
    /\ pc = "dispatch"
    /\ IF pending = << >>
       THEN /\ pc' = "loop"
            /\ UNCHANGED << pending, path, total, cycle_sent, hist >>
       ELSE /\ pc' = "http"
            /\ path' = Head(pending)
            /\ pending' = Tail(pending)
            /\ total' = retries
            /\ cycle_sent' = Append(cycle_sent, Head(pending))
            /\ hist' = [ hist EXCEPT
                  !.sends_since_stop = IF stop_called THEN Counted(@, MaxSends) ELSE @ ]
    /\ UNCHANGED << running, text, endpoint, attempts, last, got, result,
                    cycle_results, stop_called, exit_status >>

\* line 111: one HTTP request of self.session.get(url); a retryable outcome is
\* retried until the Retry is exhausted
HttpAttempt ==
    /\ pc = "http"
    /\ \E o \in AttemptOutcomes :
         /\ attempts' = attempts + 1
         /\ last' = o
         /\ IF Retryable(o, total)
            THEN IF Exhausted(total)
                 THEN /\ got' = [ kind |-> "exception", exc |-> ExhaustedError(o),
                                  status |-> o.status ]
                      /\ pc' = "got"
                      /\ total' = total
                 ELSE /\ total' = total - 1
                      /\ pc' = "http"
                      /\ got' = got
            ELSE /\ got' = [ kind |-> "response", exc |-> None, status |-> o.status ]
                 /\ pc' = "got"
                 /\ total' = total
    /\ UNCHANGED << running, text, endpoint, pending, path, result,
                    cycle_sent, cycle_results, stop_called, exit_status, hist >>

\* lines 112-117: resp.raise_for_status(); return True; except
\* requests.RequestException: return False; any other exception propagates
send_command_return ==
    /\ pc = "got"
    /\ LET exc == RaisedInTry(got)
       IN  IF exc = None
           THEN /\ result' = TRUE
                /\ pc' = "sent"
           ELSE IF Caught(exc)
           THEN /\ result' = FALSE
                /\ pc' = "sent"
           ELSE /\ result' = result
                /\ pc' = "raised"
    /\ UNCHANGED << running, text, endpoint, pending, path, total, attempts, last, got,
                    cycle_sent, cycle_results, stop_called, exit_status, hist >>

\* mutant: a send_command that returned False is turned into an exception
AfterSend_raise_on_failure ==
    /\ pc = "sent"
    /\ cycle_results' = Append(cycle_results, result)
    /\ pc' = IF ~ result THEN "raised"
             ELSE IF IsComposite(endpoint) THEN "member_sleep" ELSE "loop"
    /\ path' = None
    /\ total' = 0
    /\ attempts' = 0
    /\ last' = NoOutcome
    /\ got' = NoResult
    /\ result' = FALSE
    /\ UNCHANGED << running, text, endpoint, pending, cycle_sent, stop_called,
                    exit_status, hist >>

\* mutant: a failed member ends the for loop
AfterSend_break_on_failure ==
    /\ pc = "sent"
    /\ cycle_results' = Append(cycle_results, result)
    /\ pc' = IF IsComposite(endpoint) /\ result THEN "member_sleep" ELSE "loop"
    /\ path' = None
    /\ total' = 0
    /\ attempts' = 0
    /\ last' = NoOutcome
    /\ got' = NoResult
    /\ result' = FALSE
    /\ UNCHANGED << running, text, endpoint, pending, cycle_sent, stop_called,
                    exit_status, hist >>

\* run() after self.send_command(e) returned: the value is dropped; a composite
\* member is followed by time.sleep(0.1) (lines 169, 174)
AfterSend ==
    /\ pc = "sent"
    /\ cycle_results' = Append(cycle_results, result)
    /\ pc' = IF IsComposite(endpoint) THEN "member_sleep" ELSE "loop"
    /\ path' = None
    /\ total' = 0
    /\ attempts' = 0
    /\ last' = NoOutcome
    /\ got' = NoResult
    /\ result' = FALSE
    /\ UNCHANGED << running, text, endpoint, pending, cycle_sent, stop_called,
                    exit_status, hist >>

\* lines 169, 174: time.sleep(0.1), then the next member
MemberSleep ==
    /\ pc = "member_sleep"
    /\ pc' = "dispatch"
    /\ UNCHANGED << running, text, endpoint, pending, path, total, attempts, last, got,
                    result, cycle_sent, cycle_results, stop_called, exit_status, hist >>

\* mutant: stop() flips the flag
stop_toggle ==
    /\ pc \notin { "exit" }
    /\ running' = ~ running
    /\ stop_called' = TRUE
    /\ hist' = [ hist EXCEPT !.early_stop = @ \/ ~ hist.checked,
                             !.set_again = @ \/ ~ running ]
    /\ UNCHANGED << pc, text, endpoint, pending, path, total, attempts, last, got,
                    result, cycle_sent, cycle_results, exit_status >>

\* mutant: stop() logs and leaves the flag as it is
stop_flag_kept ==
    /\ pc \notin { "exit" }
    /\ running' = running
    /\ stop_called' = TRUE
    /\ hist' = [ hist EXCEPT !.early_stop = @ \/ ~ hist.checked,
                             !.set_again = @ \/ ~ running ]
    /\ UNCHANGED << pc, text, endpoint, pending, path, total, attempts, last, got,
                    result, cycle_sent, cycle_results, exit_status >>

\* stop(), lines 178-181, called by handle_interrupt on SIGINT at any point of
\* the run
stop ==
    /\ pc \notin { "exit" }
    /\ running' = FALSE
    /\ stop_called' = TRUE
    /\ hist' = [ hist EXCEPT !.early_stop = @ \/ ~ hist.checked,
                             !.set_again = @ \/ ~ running ]
    /\ UNCHANGED << pc, text, endpoint, pending, path, total, attempts, last, got,
                    result, cycle_sent, cycle_results, exit_status >>

\* mutant: the except clause of main returns 0 as well
MainExit_always_zero ==
    /\ pc \in { "returned", "raised" }
    /\ exit_status' = IF pc = "returned" THEN 0 ELSE 0
    /\ pc' = "exit"
    /\ UNCHANGED << running, text, endpoint, pending, path, total, attempts, last, got,
                    result, cycle_sent, cycle_results, stop_called, hist >>

\* main, lines 226-232: 0 when run() returns, 2 when it raises
MainExit ==
    /\ pc \in { "returned", "raised" }
    /\ exit_status' = IF pc = "returned" THEN 0 ELSE 2
    /\ pc' = "exit"
    /\ UNCHANGED << running, text, endpoint, pending, path, total, attempts, last, got,
                    result, cycle_sent, cycle_results, stop_called, hist >>

Next ==
    \/ adjust_ambient
    \/ LoopCheck
    \/ Listen
    \/ Pause
    \/ Match
    \/ Dispatch
    \/ HttpAttempt
    \/ send_command_return
    \/ AfterSend
    \/ MemberSleep
    \/ stop
    \/ MainExit

Spec == Init /\ [][Next]_vars

\* a step of the main thread: every action but the signal handler's stop()
MainStep ==
    \/ adjust_ambient
    \/ LoopCheck
    \/ Listen
    \/ Pause
    \/ Match
    \/ Dispatch
    \/ HttpAttempt
    \/ send_command_return
    \/ AfterSend
    \/ MemberSleep
    \/ MainExit

\* Spec with a main thread that keeps running: calibration, every listen, every
\* sleep and every HTTP attempt come to an end.  Nothing is assumed of stop():
\* the interrupt may never come.
FairSpec == Spec /\ WF_vars(MainStep)

(***************************************************************************)
(* Properties of the matcher, checked under SpecMatch.                     *)
(***************************************************************************)
Entries == 1..Len(command_map)

\* the entries of the table with a phrase in t
Occurring(t) == { i \in Entries : EntryOccurs(t, i) }

\* entry i is the only entry of the table with a phrase in t
OnlyEntry(t, i) == Occurring(t) = {i}

\* C1: an utterance whose lowercased text holds phrases of exactly one table
\* entry is matched to that entry's endpoint, whatever surrounds the phrase;
\* "LED on" -> led/on, "turn led off" -> led/off, "please turn the light on" ->
\* light/on, "fan on please" -> fan/on, "turn everything on" -> all/on,
\* "can you turn everything off" -> all/off.
C1_SingleEntryMatch ==
    pc = "m_done" =>
        /\ LET occ == Occurring(Lower(text))
           IN  \A i \in Entries : occ = {i} => endpoint = command_map[i].endpoint
        /\ text = "LED on" => endpoint = "led/on"
        /\ text = "turn led off" => endpoint = "led/off"
        /\ text = "please turn the light on" => endpoint = "light/on"
        /\ text = "fan on please" => endpoint = "fan/on"
        /\ text = "turn everything on" => endpoint = "all/on"
        /\ text = "can you turn everything off" => endpoint = "all/off"

\* C1 witness: a phrase of one entry only, capitalised filler on both sides
C1_Witness ==
    /\ pc = "m_done"
    /\ text = "Hey turn on fan Thanks"
    /\ OnlyEntry(Lower(text), 7)
    /\ endpoint = "fan/on"

\* C2: "<device> <state>" followed by filler words is matched to
\* "<device>/<state>" for each of led, light, fan, projector and on, off; in
\* particular "projector off now" -> projector/off.
C2_DeviceStateMatch ==
    pc = "m_done" =>
        \A d \in Devices, s \in States, post \in {"", " now", " please", " right now"} :
            text = d \o " " \o s \o post => endpoint = d \o "/" \o s

\* C3: when phrases of two different table entries occur in the utterance, the
\* endpoint of the entry declared earlier is returned, wherever the phrases
\* stand in the text; "fan off then led on" -> led/on.
C3_TableOrderPrecedence ==
    pc = "m_done" =>
        /\ LET occ == Occurring(Lower(text))
           IN  \A i \in occ, j \in occ :
                 i < j => /\ endpoint # command_map[j].endpoint
                          /\ (\A k \in occ : i <= k)
                                 => endpoint = command_map[i].endpoint
        /\ text = "fan off then led on" => endpoint = "led/on"
        /\ text = "led on then fan off" => endpoint = "led/on"

\* C3 witness: the phrase of the later entry stands first in the text
C3_Witness ==
    /\ pc = "m_done"
    /\ text = "fan off then led on"
    /\ EntryOccurs(text, 3)
    /\ EntryOccurs(text, 8)
    /\ endpoint = "led/on"

\* t matches one of the two fallback patterns
FallbackMatches(t) == RegexAll(t, "on") \/ RegexAll(t, "off")

\* C4: the fallback patterns are consulted only when no table phrase occurs: an
\* utterance that holds a table phrase and matches a fallback pattern gets the
\* endpoint of the (first) table entry; "turn the fan off and all the rest on"
\* -> fan/off.
C4_TableBeforeFallback ==
    pc = "m_done" =>
        /\ LET occ == Occurring(Lower(text))
           IN  (occ # {} /\ FallbackMatches(Lower(text)))
                 => \E i \in occ : /\ \A k \in occ : i <= k
                                    /\ endpoint = command_map[i].endpoint
        /\ text = "turn the fan off and all the rest on" => endpoint = "fan/off"

\* C4 witness: the text matches the "on" pattern and holds "fan off"
C4_Witness ==
    /\ pc = "m_done"
    /\ text = "turn the fan off and all the rest on"
    /\ RegexAll(text, "on")
    /\ endpoint = "fan/off"

FallbackShaped(s) ==
    { verb \o f1 \o " all" \o f2 \o " " \o s :
        verb \in {"turn", "switch", "Switch"},
        f1 \in FillersBeforeAll,
        f2 \in FillersAfterAll }

\* C14 (as claimed): an utterance made of the verb "turn" or "switch", then
\* "all", then "on", with any number of filler words (none included) between
\* them and with no table phrase in it, gets "all/on"; with "off", "all/off".
C14_FallbackWithFillers ==
    pc = "m_done" =>
        \A s \in States :
            (text \in FallbackShaped(s) /\ Occurring(Lower(text)) = {})
                => endpoint = "all/" \o s

(***************************************************************************)
(* Properties of the dispatcher and of the loop, checked under Spec.       *)
(***************************************************************************)
\* a send_command call has been entered and has not returned to run()
InSend == pc \in { "http", "got", "sent" }

\* an iteration of the loop that matched an endpoint has ended
CycleEnded == pc \in { "loop", "returned" } /\ ~ NoText(text) /\ endpoint # None

\* C6: a matched all/on makes exactly four send_command calls, led/on, light/on,
\* projector/on, fan/on in this order, and all/off the four off paths; a call is
\* entered only when the one before it has returned; every member is sent
\* whatever the earlier members returned.
C6_CompositeExpansion ==
    /\ (CycleEnded /\ endpoint = "all/on")
           => /\ cycle_sent = << "led/on", "light/on", "projector/on", "fan/on" >>
              /\ Len(cycle_results) = 4
    /\ (CycleEnded /\ endpoint = "all/off")
           => /\ cycle_sent = << "led/off", "light/off", "projector/off", "fan/off" >>
              /\ Len(cycle_results) = 4
    /\ Len(cycle_sent) = Len(cycle_results) + (IF InSend THEN 1 ELSE 0)

\* C6 witness: the four members were sent although the first and the third failed
C6_Witness ==
    /\ CycleEnded
    /\ endpoint = "all/on"
    /\ cycle_sent = << "led/on", "light/on", "projector/on", "fan/on" >>
    /\ cycle_results = << FALSE, TRUE, FALSE, TRUE >>

\* C7: once stop() has been invoked, the loop's check of the run flag does not
\* succeed again: no step leads from the loop head to a listen.
C7_StopSemantics ==
    [][ stop_called => ~ (pc = "loop" /\ pc' = "listening") ]_vars

\* C7 witness: stop() was invoked, the iteration that sent the four members of
\* a composite ran to its end and run() returned
C7_Witness ==
    /\ stop_called
    /\ pc = "returned"
    /\ Len(cycle_sent) = 4

\* session.get ended with a response that raise_for_status accepts
Succeeded(g) == g.kind = "response" /\ g.status < 400

\* C8: with 3 retries, a send_command whose first attempts fail transiently and
\* whose later attempt within the budget succeeds returns true; one whose
\* failures exceed the budget returns false, after 4 attempts, and no
\* send_command makes more than 4 attempts or raises.
C8_RetryBudget ==
    /\ attempts <= 4
    /\ pc = "sent" =>
         /\ Succeeded(got) => result = TRUE
         /\ got.kind = "exception" => (result = FALSE /\ attempts = 4)
    /\ pc = "raised" => got = NoResult

\* C8 witness: three transient failures, then success on the fourth attempt
C8_Witness ==
    /\ pc = "sent"
    /\ attempts = 4
    /\ Succeeded(got)
    /\ result = TRUE

\* the attempt met a client-error response
ClientError(o) == o.kind = "response" /\ 400 <= o.status /\ o.status < 500

ConcreteEndpoints ==
    { "led/on", "led/off", "light/on", "light/off",
      "fan/on", "fan/off", "projector/on", "projector/off" }

\* C10: every path passed to send_command is one of the eight concrete
\* endpoints; all/on and all/off are expanded and never passed.
C10_OnlyConcreteDispatched ==
    /\ \A n \in 1..Len(cycle_sent) : cycle_sent[n] \in ConcreteEndpoints
    /\ InSend => path \in ConcreteEndpoints

\* C10 witness: a matched all/off is in the middle of its expansion
C10_Witness ==
    /\ endpoint = "all/off"
    /\ pc = "http"
    /\ path = "projector/off"
    /\ cycle_sent = << "led/off", "light/off", "projector/off" >>

\* main has returned the status n
Exited(n) == pc = "exit" /\ exit_status = n

\* C11 (as claimed): when every listen and every send_command returns, a stop()
\* is followed by run() returning and main returning 0.
C11_StopLeadsToExitZero == stop_called ~> Exited(0)

\* C11 (amended): a stop() invoked while run() is executing is followed by
\* run() returning and main returning 0, unless calibration or a listen raises
\* an exception that run() does not handle.
C11_StopLeadsToExitZeroUnlessRaised ==
    (stop_called /\ pc \notin { "raised", "exit" }) ~> (Exited(0) \/ pc = "raised")

\* C11 witness: stop() came during the run and main returned 0
C11_Witness ==
    /\ stop_called
    /\ hist.checked
    /\ Exited(0)

\* adjust_ambient raised
CalibrationFailed == hist.calibrations > 0 /\ ~ hist.calibrated

\* C12: once calibration has failed, or a listen has raised an exception other
\* than the two that listen_once handles, run() is over: no listen and no
\* send_command begins any more, and the only step of main left is the return of
\* exit status 2, which stays 2.
C12_ExceptionEndsRunWithTwo ==
    [][ /\ CalibrationFailed => pc \in { "raised", "exit" }
        /\ pc = "raised" =>
              /\ pc' \in { "raised", "exit" }
              /\ pc' = "exit" => exit_status' = 2
              /\ cycle_sent' = cycle_sent
              /\ hist'.listens_since_stop = hist.listens_since_stop
              /\ hist'.sends_since_stop = hist.sends_since_stop
        /\ (pc = "exit" /\ exit_status = 2) => (pc' = "exit" /\ exit_status' = 2)
      ]_vars

\* C12 witness: a listen raised in an iteration of the loop and main returned 2
C12_Witness ==
    /\ hist.calibrated
    /\ hist.checked
    /\ Exited(2)

\* C15: stop() is seen only at the loop head.  After the first stop() at most
\* one more listen_once and at most four more send_command calls begin; an
\* iteration that matched a composite still sends its four members when stop()
\* came during it; a stop() that came before the first evaluation of the while
\* condition is followed by no listen and no send_command at all.
C15_CooperativeCancellation ==
    /\ hist.listens_since_stop <= 1
    /\ hist.sends_since_stop <= 4
    /\ (stop_called /\ CycleEnded /\ IsComposite(endpoint)) => Len(cycle_sent) = 4
    /\ (stop_called /\ CycleEnded /\ ~ IsComposite(endpoint)) => Len(cycle_sent) = 1
    /\ hist.early_stop =>
          /\ hist.listens_since_stop = 0
          /\ hist.sends_since_stop = 0
          /\ text = None
          /\ cycle_sent = << >>
          /\ pc \in { "calibrating", "loop", "returned", "raised", "exit" }

\* C15 witness: stop() came after the flag was read; one listen and the four
\* members of a composite followed it, then run() returned
C15_Witness ==
    /\ stop_called
    /\ hist.listens_since_stop = 1
    /\ hist.sends_since_stop = 4
    /\ Len(cycle_sent) = 4
    /\ pc = "returned"

\* C16: an iteration whose listen gave no text (None or "") or whose text
\* matched nothing calls send_command not once and does not leave the loop: the
\* loop head follows, and from it another listen while the flag is true.  The
\* sleep of line 157 is reached from a listen without text only, never from a
\* match.
C16_NoTextNoMatchKeepLooping ==
    [][ /\ pc = "pause" => (NoText(text) /\ cycle_sent = << >>)
        /\ pc' = "pause" => pc \in { "listening", "pause" }
        /\ (pc = "listening" /\ pc' \notin { "listening", "raised" } /\ NoText(text'))
              => (pc' = "pause" /\ cycle_sent' = << >>)
        /\ (pc = "pause" /\ pc' # pc) => (pc' = "loop" /\ cycle_sent' = << >>)
        /\ (pc = "matching" /\ pc' # pc /\ endpoint' = None)
              => (pc' = "loop" /\ cycle_sent' = << >>)
        /\ (pc = "loop" /\ running /\ pc' # pc) => pc' = "listening"
        /\ (pc \in { "loop", "returned" } /\ (NoText(text) \/ endpoint = None))
              => cycle_sent = << >>
      ]_vars

\* C16 witness: an utterance matched nothing, nothing was sent, and the next
\* iteration has begun
C16_Witness ==
    /\ pc = "listening"
    /\ running
    /\ ~ NoText(text)
    /\ endpoint = None
    /\ cycle_sent = << >>

\* C17: an iteration that matched a concrete endpoint calls send_command once,
\* with that endpoint.  Whatever send_command returned, run() goes on to the
\* loop head (after the sleep, for a member of a composite) and from there to
\* another listen while the flag is true: run() is left by an exception only
\* from calibration or a listen, and by a return only at the loop head with the
\* flag false.
C17_SingleDispatchLoopGoesOn ==
    [][ /\ (CycleEnded /\ endpoint \in ConcreteEndpoints)
              => (cycle_sent = << endpoint >> /\ Len(cycle_results) = 1)
        /\ (pc = "sent" /\ pc' # pc) =>
              /\ pc' = IF IsComposite(endpoint) THEN "member_sleep" ELSE "loop"
              /\ cycle_results' = Append(cycle_results, result)
        /\ (pc' = "raised" /\ pc # "raised") => pc \in { "calibrating", "listening" }
        /\ (pc' = "returned" /\ pc # "returned") => (pc = "loop" /\ ~ running)
        /\ (pc = "loop" /\ running /\ pc' # pc) => pc' = "listening"
      ]_vars

\* C17 witness: the one send_command of an iteration returned False and run() is
\* at the loop head with the flag true
C17_Witness ==
    /\ pc = "loop"
    /\ running
    /\ CycleEnded
    /\ endpoint \in ConcreteEndpoints
    /\ cycle_sent = << endpoint >>
    /\ cycle_results = << FALSE >>

\* run() is in its while loop or has returned from it
InLoop == pc \notin { "calibrating", "raised", "exit" }

\* C18: adjust_ambient is called once in a run, before anything else: the loop
\* (and so every listen, match and send_command) is entered only after the
\* calibration has returned without an exception, and no step leads back to the
\* calibration.
C18_CalibrationOnceAndFirst ==
    /\ hist.calibrations <= 1
    /\ pc = "calibrating" <=> hist.calibrations = 0
    /\ InLoop => (hist.calibrations = 1 /\ hist.calibrated)
    /\ hist.checked => hist.calibrated
    /\ (text # None \/ endpoint # None \/ cycle_sent # << >>) => hist.calibrated
    /\ ~ hist.calibrated => (hist.listens_since_stop = 0 /\ hist.sends_since_stop = 0)

\* C18 witness: a listen has returned a text, after the one calibration
C18_Witness ==
    /\ pc = "matching"
    /\ hist.calibrations = 1
    /\ hist.calibrated

\* C19 (as claimed): in the life of a controller the flag is set false exactly
\* once: never a second time, and once by the time main has returned.
C19_SetFalseExactlyOnce ==
    /\ ~ hist.set_again
    /\ pc = "exit" => stop_called

\* C19 (amended): the flag is true from the construction until the first
\* stop(); only a stop() changes it, from true to false; stop() may be invoked
\* again (and assigns False again) or never; once false the flag is never true
\* again.
C19_FlagLifecycle ==
    [][ /\ running <=> ~ stop_called
        /\ running' # running =>
              /\ running /\ ~ running'
              /\ ~ stop_called /\ stop_called'
              /\ pc' = pc
        /\ ~ running => ~ running'
        /\ hist'.set_again => ~ running'
      ]_vars

\* C19 witness: stop() was invoked twice and the flag is false
C19_Witness ==
    /\ stop_called
    /\ hist.set_again
    /\ ~ running

(***************************************************************************)
(* The command table, checked under SpecMatch.                             *)
(***************************************************************************)
\* the phrases of table entry i
PhrasesOf(i) == { command_map[i].phrases[n] : n \in 1..Len(command_map[i].phrases) }

\* C20: no phrase of a table entry occurs inside a phrase of another entry, so
\* the matcher applied to a phrase of the table returns the endpoint of the
\* entry that holds the phrase.
C20_PhrasesDoNotCollide ==
    (pc = "m_done" /\ text \in AllPhrases) =>
        /\ \A i \in Entries : \A j \in Entries \ {i} :
              \A p \in PhrasesOf(i) : \A q \in PhrasesOf(j) : ~ Contains(q, p)
        /\ \A i \in Entries :
              text \in PhrasesOf(i) => endpoint = command_map[i].endpoint

\* C20 witness: "turn off led", which holds the words of the led/on phrase
\* "turn on led" but not the phrase, got led/off
C20_Witness ==
    /\ pc = "m_done"
    /\ text = "turn off led"
    /\ text \in PhrasesOf(4)
    /\ endpoint = "led/off"

====
